---------------------------- MODULE Spec2Model ----------------------------
(***************************************************************************)
(* BookFinder (src/src/App.jsx): the search session controller.            *)
(*                                                                         *)
(* The component's React state, its debounce timer, the in-flight fetch    *)
(* invocations with their AbortControllers, and the two persisted lists.   *)
(* One action per event handler / timer callback / promise continuation;   *)
(* an action includes the re-render and the effects React runs after it.   *)
(*                                                                         *)
(* Strings the code trims are sequences of characters.  An optional value  *)
(* (undefined, null, or a property the object lacks) is the empty tuple, a *)
(* present one a 1-tuple.                                                  *)
(*                                                                         *)
(* Scheduling: the state updates of one handler are batched into a single  *)
(* render (React 18), whose effects run before the next event; the         *)
(* rejection of an aborted fetch is handled in a microtask, before any     *)
(* other event.  A localStorage write that throws is an action of its own  *)
(* (ToggleFavoriteQuota, FetchOkQuota), taken in SpecLists only.           *)
(***************************************************************************)
EXTENDS Integers, Sequences, FiniteSets, TLC

VARIABLES
    query,          \* useState "query": live input text
    searchTerm,     \* useState "searchTerm": committed term
    searchTrigger,  \* useState "searchTrigger": counter forcing the fetch effect
    results,        \* useState "results"
    loading,        \* useState "loading"
    error,          \* useState "error": Null or Some(message)
    page,           \* useState "page"
    numFound,       \* useState "numFound"
    sortBy,         \* useState "sortBy"
    favorites,      \* useState "favorites"
    recent,         \* useState "recent"
    storage,        \* localStorage: key -> Null or Some(text)
    timers,         \* pending setTimeout callbacks: records [id, value, elapsed]
    debounceRef,    \* debounceRef.current
    invs,           \* every fetchBooks invocation issued so far, in issue order
    cleanup,        \* the invocation whose controller.abort is the effect's cleanup (0: none)
    sinceChange,    \* observer clock: time since query last changed (saturating)
    favLog,         \* observer: the last toggles, each with the list before it
    mounted         \* the component is rendered (FALSE once a render has thrown)

searchVars == <<query, searchTerm, searchTrigger, results, loading, error,
                page, numFound, sortBy>>
asyncVars  == <<timers, debounceRef, invs, cleanup, sinceChange>>
listVars   == <<favorites, recent, storage, favLog>>
vars == <<searchVars, asyncVars, listVars, mounted>>

-----------------------------------------------------------------------------
(* Bounds of the model *)

MaxInv  == 2      \* fetchBooks invocations issued in one behaviour
TickStep == 225   \* granularity of time
MaxFavs == 2      \* length of a stored favorites list

(* Program constants *)

RESULTS_PER_PAGE == 20
DEBOUNCE_MS == 450
RECENT_CAP == 8

-----------------------------------------------------------------------------
(* Optional values *)

Null == <<>>
Some(x) == <<x>>
Get(o) == o[1]

Min(a, b) == IF a < b THEN a ELSE b
Max(a, b) == IF a > b THEN a ELSE b


CeilDiv(n, d) == (n + d - 1) \div d

-----------------------------------------------------------------------------
(* Text: String.prototype.trim *)

(* The texts the user types *)
QueryTexts == {<<>>, <<" ">>, <<" ", "a">>, <<"b">>}

IsSpace(c) == c = " "

RECURSIVE TrimStart(_)
TrimStart(s) ==
    IF s # <<>> /\ IsSpace(Head(s)) THEN TrimStart(Tail(s)) ELSE s

RECURSIVE TrimEnd(_)
TrimEnd(s) ==
    IF s # <<>> /\ IsSpace(s[Len(s)]) THEN TrimEnd(SubSeq(s, 1, Len(s) - 1)) ELSE s

Trim(s) == TrimEnd(TrimStart(s))

-----------------------------------------------------------------------------
(* Catalog records as the remote source returns them *)

BookA == [key |-> "A", title |-> "Dune", author_name |-> Some(<<"Herbert">>),
          cover_i |-> Some(11), first_publish_year |-> Some(1965),
          edition_count |-> Some(3)]
BookB == [key |-> "B", title |-> "Dune II", author_name |-> Null,
          cover_i |-> Null, first_publish_year |-> Some(2000),
          edition_count |-> Null]
BookC == [key |-> "C", title |-> "Dune III", author_name |-> Some(<<"Herbert">>),
          cover_i |-> Some(13), first_publish_year |-> Null,
          edition_count |-> Some(1)]

(* Response bodies: { numFound?, docs? } *)
Payloads ==
    { [numFound |-> Some(2),  docs |-> Some(<<BookA, BookB>>)],
      [numFound |-> Some(45), docs |-> Some(<<BookB, BookC, BookA>>)],
      [numFound |-> Null,     docs |-> Null] }

(* x || 0 and x || [] *)
OrZero(o)  == IF o = Null THEN 0 ELSE Get(o)
OrEmpty(o) == IF o = Null THEN <<>> ELSE Get(o)

SortModes == {"relevance", "year-asc", "year-desc"}

(* The comparator handed to Array.prototype.sort for a sort mode *)
Compare(mode, a, b) ==
    IF mode = "year-asc"
    THEN OrZero(a.first_publish_year) - OrZero(b.first_publish_year)
    ELSE OrZero(b.first_publish_year) - OrZero(a.first_publish_year)

(* Array.prototype.sort is stable: x, which came after every element of    *)
(* s, goes before the first element that compares greater than it.         *)
RECURSIVE SortedInsert(_, _, _)
SortedInsert(x, s, mode) ==
    IF s = <<>> THEN <<x>>
    ELSE IF Compare(mode, x, Head(s)) < 0 THEN <<x>> \o s
    ELSE <<Head(s)>> \o SortedInsert(x, Tail(s), mode)

RECURSIVE StableSort(_, _)
StableSort(s, mode) ==
    IF s = <<>> THEN <<>>
    ELSE SortedInsert(s[Len(s)], StableSort(SubSeq(s, 1, Len(s) - 1), mode), mode)

(* Mutant: the two year orders are exchanged *)
SortDocsExchanged(docs, mode) ==
    IF mode = "year-asc" THEN StableSort(docs, "year-desc")
    ELSE IF mode = "year-desc" THEN StableSort(docs, "year-asc")
    ELSE docs

Reverse(s) == [j \in 1..Len(s) |-> s[Len(s) + 1 - j]]

(* Mutant: a sort that puts items of equal year in reverse order *)
SortDocsUnstable(docs, mode) ==
    IF mode = "year-asc" THEN StableSort(Reverse(docs), "year-asc")
    ELSE IF mode = "year-desc" THEN StableSort(Reverse(docs), "year-desc")
    ELSE docs

(* docs as sorted for the mode: [...docs].sort(comparator), or docs *)
SortDocs(docs, mode) ==
    IF mode = "year-asc" THEN StableSort(docs, "year-asc")
    ELSE IF mode = "year-desc" THEN StableSort(docs, "year-desc")
    ELSE docs

(* The array data.docs after the sort: sort() rearranges the array it is   *)
(* called on, and that array is the copy [...docs].                        *)
DocsAfterSort(docs, mode) == docs

-----------------------------------------------------------------------------
(* Persisted lists *)

(* A stored text: the JSON text of an array, the empty string, text that   *)
(* does not parse, or the JSON text of a value that is not an array (null, *)
(* a number, an object).                                                   *)
JSONstringify(v) == [text |-> "json", value |-> v]
EmptyText    == [text |-> "empty", value |-> <<>>]
CorruptText  == [text |-> "corrupt", value |-> <<>>]
NonArrayText == [text |-> "non-array", value |-> <<>>]

(* What JSON.parse returns for NonArrayText: a value with no map method *)
NonArray == [nonArray |-> TRUE]

(* The properties of a favorites entry; the last three may be undefined *)
OptionalFields == {"author_name", "cover_i", "first_publish_year"}
EntryFields == {"key", "title"} \cup OptionalFields

(* JSON.stringify leaves out the properties whose value is undefined *)
OmitUndefined(e) ==
    [f \in {g \in DOMAIN e : g \in OptionalFields => e[g] # Null} |-> e[f]]

StringifyEntries(list) ==
    JSONstringify([j \in 1..Len(list) |-> OmitUndefined(list[j])])

(* A parsed entry as the code reads it: a property it lacks is undefined *)
ReadEntry(o) == [f \in EntryFields |-> IF f \in DOMAIN o THEN o[f] ELSE Null]

(* JSON.parse(localStorage.getItem(k) || "[]") inside try/catch *)
LoadList(item) ==
    IF item = Null \/ Get(item).text = "empty" THEN <<>>
    ELSE IF Get(item).text = "json" THEN Get(item).value
    ELSE IF Get(item).text = "non-array" THEN NonArray
    ELSE <<>>

(* the value parsed for the item is an array *)
LoadsArray(item) == item = Null \/ Get(item).text # "non-array"

LoadFavorites(item) ==
    IF LoadsArray(item)
    THEN [j \in 1..Len(LoadList(item)) |-> ReadEntry(LoadList(item)[j])]
    ELSE LoadList(item)

(* The first render reads favorites.length, recent.length and calls        *)
(* favorites.map and recent.map: it throws unless both are arrays.         *)
FirstRender(store) == LoadsArray(store.bf_favs) /\ LoadsArray(store.bf_recent)

Take(s, n) == SubSeq(s, 1, Min(n, Len(s)))

(* Mutant: the list is not cut to its capacity *)
RecordRecentUncapped(prev, term) ==
    <<term>> \o SelectSeq(prev, LAMBDA x : x # term)

(* Mutant: an earlier occurrence of the term is kept *)
RecordRecentDuplicating(prev, term) ==
    Take(<<term>> \o prev, RECENT_CAP)

(* The setRecent updater *)
RecordRecent(prev, term) ==
    Take(<<term>> \o SelectSeq(prev, LAMBDA x : x # term), RECENT_CAP)

(* The entry toggleFavorite stores for a book *)
FavoriteEntry(book) ==
    [key |-> book.key, title |-> book.title, author_name |-> book.author_name,
     cover_i |-> book.cover_i, first_publish_year |-> book.first_publish_year]

(* Mutant: a new favorite is appended instead of prepended *)
ToggleAppending(prev, book) ==
    IF \E i \in 1..Len(prev) : prev[i].key = book.key
    THEN SelectSeq(prev, LAMBDA b : b.key # book.key)
    ELSE prev \o <<FavoriteEntry(book)>>

(* The setFavorites updater *)
ToggleUpdater(prev, book) ==
    IF \E i \in 1..Len(prev) : prev[i].key = book.key
    THEN SelectSeq(prev, LAMBDA b : b.key # book.key)
    ELSE <<FavoriteEntry(book)>> \o prev

-----------------------------------------------------------------------------
(* Timers and AbortControllers *)

(* A timer id that is not in use.  debounceRef holds Some(id); Some(0) is  *)
(* the id of a timer that has fired or was cleared (ids are never reused,  *)
(* so clearTimeout on it does nothing).                                    *)
NewTimerId(T) ==
    CHOOSE i \in 1..(Cardinality(T) + 1) : \A t \in T : t.id # i

(* Mutant: the pending timer is not cleared *)
ClearTimeoutNothing(T, ref) == T

ClearTimeout(T, ref) == {t \in T : Some(t.id) # ref}

(* Mutant: the effect's cleanup does not abort *)
AbortNothing(I, c) == I

(* controller.abort(): rejects the fetch of a still pending invocation *)
Abort(I, c) ==
    IF c # 0 /\ I[c].status = "pending"
    THEN [I EXCEPT ![c].status = "aborted"]
    ELSE I

(* A settled invocation: its closure is gone, its outcome is kept *)
Settled(outcome) == [term |-> <<>>, page |-> 0, sort |-> "", status |-> outcome]

(* The continuation of an aborted fetch runs as a microtask, before any    *)
(* other event, timer or network callback.                                 *)
MicrotaskPending == \E i \in 1..Len(invs) : invs[i].status = "aborted"

(* An event handler can run: the component is rendered, no microtask waits *)
Ready == mounted /\ ~MicrotaskPending

(* Mutant: the empty branch of the debounce effect clears nothing *)
DebounceEffectKeeping(q, T, ref) ==
    LET T1 == IF ref # Null THEN ClearTimeout(T, ref) ELSE T
    IN  IF Trim(q) # <<>>
        THEN LET id == NewTimerId(T1)
             IN  [timers  |-> T1 \cup {[id |-> id, value |-> q, elapsed |-> 0]},
                  ref     |-> Some(id),
                  cleared |-> FALSE]
        ELSE [timers  |-> T1,
              ref     |-> IF ref = Null THEN Null ELSE Some(0),
              cleared |-> FALSE]

(* The debounce effect, run because query became q: its previous cleanup,  *)
(* then its body.  cleared: the body took the empty branch.                *)
DebounceEffect(q, T, ref) ==
    LET T1 == IF ref # Null THEN ClearTimeout(T, ref) ELSE T
    IN  IF Trim(q) # <<>>
        THEN LET id == NewTimerId(T1)
             IN  [timers  |-> T1 \cup {[id |-> id, value |-> q, elapsed |-> 0]},
                  ref     |-> Some(id),
                  cleared |-> FALSE]
        ELSE [timers  |-> T1,
              ref     |-> IF ref = Null THEN Null ELSE Some(0),
              cleared |-> TRUE]

(* Mutant: the fetch effect lacks its guard on an empty term *)
FetchEffectUnguarded(term, pg, mode, I, c) ==
    LET I1 == Abort(I, c)
    IN  [invs    |-> Append(I1, [term |-> term, page |-> pg, sort |-> mode,
                                 status |-> "pending"]),
         cleanup |-> Len(I1) + 1,
         issued  |-> TRUE]

(* Mutant: the effect has no cleanup, the prior invocation stays pending *)
FetchEffectKeepingPrior(term, pg, mode, I, c) ==
    IF term = <<>>
    THEN [invs |-> I, cleanup |-> 0, issued |-> FALSE]
    ELSE [invs    |-> Append(I, [term |-> term, page |-> pg, sort |-> mode,
                                  status |-> "pending"]),
          cleanup |-> Len(I) + 1,
          issued  |-> TRUE]

(* The fetch effect, run because one of its dependencies changed: its      *)
(* previous cleanup, then its body up to the first await of fetchBooks.    *)
FetchEffect(term, pg, mode, I, c) ==
    LET I1 == Abort(I, c)
    IN  IF term = <<>>
        THEN [invs |-> I1, cleanup |-> 0, issued |-> FALSE]
        ELSE [invs    |-> Append(I1, [term |-> term, page |-> pg, sort |-> mode,
                                      status |-> "pending"]),
              cleanup |-> Len(I1) + 1,
              issued  |-> TRUE]

(* The component state as a handler sees it *)
Cur ==
    [query |-> query, searchTerm |-> searchTerm, searchTrigger |-> searchTrigger,
     page |-> page, sortBy |-> sortBy,
     results |-> results, numFound |-> numFound, error |-> error,
     timers |-> timers, debounceRef |-> debounceRef]

(* Mutant: the trigger is not among the dependencies of the fetch effect *)
RenderIgnoringTrigger(h) ==
    LET queryChanged == h.query # query
        depsChanged  == <<h.searchTerm, h.page, h.sortBy>>
                          # <<searchTerm, page, sortBy>>
        de == DebounceEffect(h.query, h.timers, h.debounceRef)
        fe == FetchEffect(h.searchTerm, h.page, h.sortBy, invs, cleanup)
        issued  == depsChanged /\ fe.issued
        cleared == (queryChanged /\ de.cleared) \/ (depsChanged /\ ~fe.issued)
    IN  /\ issued => Len(invs) < MaxInv
        /\ query' = h.query
        /\ searchTerm' = h.searchTerm
        /\ searchTrigger' = h.searchTrigger
        /\ page' = h.page
        /\ sortBy' = h.sortBy
        /\ timers' = IF queryChanged THEN de.timers ELSE h.timers
        /\ debounceRef' = IF queryChanged THEN de.ref ELSE h.debounceRef
        /\ sinceChange' = IF queryChanged THEN 0 ELSE sinceChange
        /\ invs' = IF depsChanged THEN fe.invs ELSE invs
        /\ cleanup' = IF depsChanged THEN fe.cleanup ELSE cleanup
        /\ results' = IF cleared THEN <<>> ELSE h.results
        /\ numFound' = IF cleared THEN 0 ELSE h.numFound
        /\ error' = IF cleared \/ issued THEN Null ELSE h.error
        /\ loading' = IF issued THEN TRUE ELSE loading
        /\ UNCHANGED mounted

(* The re-render after a handler left the state h, and the effects whose   *)
(* dependencies changed: the debounce effect first, then the fetch effect. *)
Render(h) ==
    LET queryChanged == h.query # query
        depsChanged  == <<h.searchTerm, h.page, h.sortBy, h.searchTrigger>>
                          # <<searchTerm, page, sortBy, searchTrigger>>
        de == DebounceEffect(h.query, h.timers, h.debounceRef)
        fe == FetchEffect(h.searchTerm, h.page, h.sortBy, invs, cleanup)
        issued  == depsChanged /\ fe.issued
        cleared == (queryChanged /\ de.cleared) \/ (depsChanged /\ ~fe.issued)
    IN  /\ issued => Len(invs) < MaxInv
        /\ query' = h.query
        /\ searchTerm' = h.searchTerm
        /\ searchTrigger' = h.searchTrigger
        /\ page' = h.page
        /\ sortBy' = h.sortBy
        /\ timers' = IF queryChanged THEN de.timers ELSE h.timers
        /\ debounceRef' = IF queryChanged THEN de.ref ELSE h.debounceRef
        /\ sinceChange' = IF queryChanged THEN 0 ELSE sinceChange
        /\ invs' = IF depsChanged THEN fe.invs ELSE invs
        /\ cleanup' = IF depsChanged THEN fe.cleanup ELSE cleanup
        /\ results' = IF cleared THEN <<>> ELSE h.results
        /\ numFound' = IF cleared THEN 0 ELSE h.numFound
        /\ error' = IF cleared \/ issued THEN Null ELSE h.error
        /\ loading' = IF issued THEN TRUE ELSE loading
        /\ UNCHANGED mounted

-----------------------------------------------------------------------------
(* Search: user events *)

(* input onChange *)
SetQuery(v) ==
    /\ Ready
    /\ v # query
    /\ Render([Cur EXCEPT !.query = v])
    /\ UNCHANGED listVars

(* the debounce timer's callback (a timer that was not cleared runs its    *)
(* callback after the component is gone too: its setState calls then do    *)
(* nothing)                                                                *)
DebounceFire(t) ==
    /\ ~MicrotaskPending
    /\ t \in timers
    /\ t.elapsed >= DEBOUNCE_MS
    /\ IF mounted
       THEN Render([Cur EXCEPT !.page = 1,
                               !.searchTerm = Trim(t.value),
                               !.searchTrigger = searchTrigger + 1,
                               !.timers = timers \ {t},
                               !.debounceRef = IF debounceRef = Some(t.id)
                                               THEN Some(0) ELSE debounceRef])
       ELSE /\ timers' = timers \ {t}
            /\ UNCHANGED <<searchVars, debounceRef, invs, cleanup, sinceChange, mounted>>
    /\ UNCHANGED listVars

(* Mutant: the Search button leaves the page where it is *)
SearchClickKeepingPage ==
    /\ Ready
    /\ Trim(query) # <<>>
    /\ Render([Cur EXCEPT !.searchTerm = Trim(query),
                          !.searchTrigger = searchTrigger + 1])
    /\ UNCHANGED listVars

(* Search button onClick (disabled while query.trim() is empty) *)
SearchClick ==
    /\ Ready
    /\ Trim(query) # <<>>
    /\ Render([Cur EXCEPT !.searchTerm = Trim(query),
                          !.page = 1,
                          !.searchTrigger = searchTrigger + 1])
    /\ UNCHANGED listVars

(* Clear button onClick *)
ClearClick ==
    /\ Ready
    /\ Render([Cur EXCEPT !.query = <<>>,
                          !.searchTerm = <<>>,
                          !.results = <<>>,
                          !.numFound = 0,
                          !.error = Null])
    /\ UNCHANGED listVars

(* recent-search chip onClick *)
UseRecent(i) ==
    /\ Ready
    /\ i \in 1..Len(recent)
    /\ Render([Cur EXCEPT !.query = recent[i],
                          !.searchTerm = recent[i],
                          !.page = 1,
                          !.searchTrigger = searchTrigger + 1])
    /\ UNCHANGED listVars

(* Mutant: next does not look at the number of pages *)
NextPageUnbounded ==
    /\ Ready
    /\ Render([Cur EXCEPT !.page = page + 1])
    /\ UNCHANGED listVars

(* "Next" button onClick: nextPage *)
NextPage ==
    /\ Ready
    /\ Render([Cur EXCEPT !.page = IF page < CeilDiv(numFound, RESULTS_PER_PAGE)
                                   THEN page + 1 ELSE page])
    /\ UNCHANGED listVars

(* "Previous" button onClick: prevPage *)
PrevPage ==
    /\ Ready
    /\ Render([Cur EXCEPT !.page = IF page > 1 THEN page - 1 ELSE page])
    /\ UNCHANGED listVars

(* sort select onChange *)
SetSortBy(v) ==
    /\ Ready
    /\ v # sortBy
    /\ Render([Cur EXCEPT !.sortBy = v])
    /\ UNCHANGED listVars

(* Mutant: the list is emptied in memory only *)
ClearRecentInMemory ==
    /\ Ready
    /\ recent' = <<>>
    /\ UNCHANGED <<searchVars, asyncVars, favorites, favLog, mounted, storage>>

(* "Clear" of the recent searches: clearRecent *)
ClearRecent ==
    /\ Ready
    /\ recent' = <<>>
    /\ storage' = [storage EXCEPT !.bf_recent = Null]
    /\ UNCHANGED <<searchVars, asyncVars, favorites, favLog, mounted>>

-----------------------------------------------------------------------------
(* Search: the remote lookup settles *)

(* How a fetch can fail: the promise rejects (network), the status is not  *)
(* 2xx, or res.json() rejects.                                             *)
Failures ==
    { [kind |-> "network", status |-> 0,   message |-> "Failed to fetch"],
      [kind |-> "network", status |-> 0,   message |-> ""],
      [kind |-> "http",    status |-> 500, message |-> ""],
      [kind |-> "body",    status |-> 200, message |-> "Unexpected end of JSON input"] }

(* The message of the error that reaches the catch block *)
ThrownMessage(f) ==
    IF f.kind = "http" THEN "Server error: " \o ToString(f.status) ELSE f.message

(* err.message || "Failed to fetch books" *)
ErrorText(f) ==
    IF ThrownMessage(f) = "" THEN "Failed to fetch books" ELSE ThrownMessage(f)

(* Mutant: a response replaces the results and leaves the total *)
FetchOkKeepingCount(i, data) ==
    /\ Ready
    /\ i \in 1..Len(invs)
    /\ invs[i].status = "pending"
    /\ results' = SortDocs(OrEmpty(data.docs), invs[i].sort)
    /\ recent' = RecordRecent(recent, invs[i].term)
    /\ storage' = [storage EXCEPT !.bf_recent = Some(JSONstringify(recent'))]
    /\ loading' = FALSE
    /\ invs' = [invs EXCEPT ![i] = Settled("succeeded")]
    /\ UNCHANGED <<query, searchTerm, searchTrigger, error, page, numFound, sortBy>>
    /\ UNCHANGED <<timers, debounceRef, cleanup, sinceChange, favorites, favLog, mounted>>

(* fetch resolved with a 2xx status and a readable body *)
FetchOk(i, data) ==
    /\ Ready
    /\ i \in 1..Len(invs)
    /\ invs[i].status = "pending"
    /\ numFound' = OrZero(data.numFound)
    /\ results' = SortDocs(OrEmpty(data.docs), invs[i].sort)
    /\ recent' = RecordRecent(recent, invs[i].term)
    /\ storage' = [storage EXCEPT !.bf_recent = Some(JSONstringify(recent'))]
    /\ loading' = FALSE
    /\ invs' = [invs EXCEPT ![i] = Settled("succeeded")]
    /\ UNCHANGED <<query, searchTerm, searchTrigger, error, page, sortBy>>
    /\ UNCHANGED <<timers, debounceRef, cleanup, sinceChange, favorites, favLog, mounted>>

(* Mutant: a failure clears the results shown *)
FetchFailClearing(i, f) ==
    /\ Ready
    /\ i \in 1..Len(invs)
    /\ invs[i].status = "pending"
    /\ error' = Some(ErrorText(f))
    /\ loading' = FALSE
    /\ results' = <<>>
    /\ numFound' = 0
    /\ invs' = [invs EXCEPT ![i] = Settled("failed")]
    /\ UNCHANGED <<query, searchTerm, searchTrigger, page, sortBy>>
    /\ UNCHANGED <<timers, debounceRef, cleanup, sinceChange, listVars, mounted>>

(* Mutant: the term is recorded before the response is known to be good *)
FetchFailRecording(i, f) ==
    /\ Ready
    /\ i \in 1..Len(invs)
    /\ invs[i].status = "pending"
    /\ error' = Some(ErrorText(f))
    /\ loading' = FALSE
    /\ recent' = RecordRecent(recent, invs[i].term)
    /\ storage' = [storage EXCEPT !.bf_recent = Some(JSONstringify(recent'))]
    /\ invs' = [invs EXCEPT ![i] = Settled("failed")]
    /\ UNCHANGED <<query, searchTerm, searchTrigger, results, page, numFound, sortBy>>
    /\ UNCHANGED <<timers, debounceRef, cleanup, sinceChange, favorites, favLog, mounted>>

(* Mutant: a failed lookup is tried again *)
FetchFailRetrying(i, f) ==
    /\ Ready
    /\ i \in 1..Len(invs)
    /\ invs[i].status = "pending"
    /\ Len(invs) < MaxInv
    /\ error' = Some(ErrorText(f))
    /\ loading' = TRUE
    /\ invs' = Append([invs EXCEPT ![i] = Settled("failed")], invs[i])
    /\ cleanup' = Len(invs')
    /\ UNCHANGED <<query, searchTerm, searchTrigger, results, page, numFound, sortBy>>
    /\ UNCHANGED <<timers, debounceRef, sinceChange, listVars, mounted>>

(* fetch failed for a reason other than abort *)
FetchFail(i, f) ==
    /\ Ready
    /\ i \in 1..Len(invs)
    /\ invs[i].status = "pending"
    /\ error' = Some(ErrorText(f))
    /\ loading' = FALSE
    /\ invs' = [invs EXCEPT ![i] = Settled("failed")]
    /\ UNCHANGED <<query, searchTerm, searchTrigger, results, page, numFound, sortBy>>
    /\ UNCHANGED <<timers, debounceRef, cleanup, sinceChange, listVars, mounted>>

(* Mutant: the settlement of an aborted fetch leaves loading alone *)
AbortSettleSilent(i) ==
    /\ i \in 1..Len(invs)
    /\ invs[i].status = "aborted"
    /\ invs' = [invs EXCEPT ![i] = Settled("cancelled")]
    /\ UNCHANGED <<query, searchTerm, searchTrigger, results, loading, error, page, numFound, sortBy>>
    /\ UNCHANGED <<timers, debounceRef, cleanup, sinceChange, listVars, mounted>>

(* the aborted fetch rejects with AbortError: catch skips it, finally runs *)
(* (setLoading does nothing once the component is gone)                    *)
AbortSettle(i) ==
    /\ i \in 1..Len(invs)
    /\ invs[i].status = "aborted"
    /\ loading' = IF mounted THEN FALSE ELSE loading
    /\ invs' = [invs EXCEPT ![i] = Settled("cancelled")]
    /\ UNCHANGED <<query, searchTerm, searchTrigger, results, error, page, numFound, sortBy>>
    /\ UNCHANGED <<timers, debounceRef, cleanup, sinceChange, listVars, mounted>>

(* time passes *)
Tick ==
    /\ ~MicrotaskPending
    /\ sinceChange < DEBOUNCE_MS \/ \E t \in timers : t.elapsed < DEBOUNCE_MS
    /\ timers' = {[t EXCEPT !.elapsed = Min(t.elapsed + TickStep, DEBOUNCE_MS)] : t \in timers}
    /\ sinceChange' = Min(sinceChange + TickStep, DEBOUNCE_MS)
    /\ UNCHANGED <<searchVars, debounceRef, invs, cleanup, listVars, mounted>>

-----------------------------------------------------------------------------
(* The search session *)

StoredRecents == {Null, Some(JSONstringify(<< <<"b">> >>))}

Init ==
    /\ query = <<>>
    /\ searchTerm = <<>>
    /\ searchTrigger = 0
    /\ results = <<>>
    /\ loading = FALSE
    /\ error = Null
    /\ page = 1
    /\ numFound = 0
    /\ sortBy = "relevance"
    /\ \E r \in StoredRecents : storage = [bf_favs |-> Null, bf_recent |-> r]
    /\ favorites = LoadFavorites(storage.bf_favs)
    /\ recent = LoadList(storage.bf_recent)
    /\ timers = {}
    /\ debounceRef = Null
    /\ invs = <<>>
    /\ cleanup = 0
    /\ sinceChange = DEBOUNCE_MS
    /\ favLog = <<>>
    /\ mounted = TRUE

Next ==
    \/ \E v \in QueryTexts : SetQuery(v)
    \/ \E t \in timers : DebounceFire(t)
    \/ SearchClick
    \/ ClearClick
    \/ \E i \in 1..Len(recent) : UseRecent(i)
    \/ NextPage
    \/ PrevPage
    \/ \E v \in SortModes : SetSortBy(v)
    \/ ClearRecent
    \/ \E i \in 1..Len(invs) : \E d \in Payloads : FetchOk(i, d)
    \/ \E i \in 1..Len(invs) : \E f \in Failures : FetchFail(i, f)
    \/ \E i \in 1..Len(invs) : AbortSettle(i)
    \/ Tick

Spec == Init /\ [][Next]_vars

-----------------------------------------------------------------------------
(* Favorites *)

Range(s) == {s[j] : j \in 1..Len(s)}

(* The last two toggles, each with the key toggled, the entry the book     *)
(* projects to, and the list before it.                                    *)
Logged(log, book, before) ==
    LET e == [key |-> book.key, entry |-> FavoriteEntry(book), before |-> before]
    IN  IF log = <<>> THEN <<e>> ELSE <<log[Len(log)], e>>

(* Mutant: the list as it was before the toggle is written *)
ToggleFavoriteStale(book) ==
    /\ Ready
    /\ book \in Range(results) \cup Range(favorites)
    /\ favorites' = ToggleUpdater(favorites, book)
    /\ storage' = [storage EXCEPT !.bf_favs = Some(StringifyEntries(favorites))]
    /\ favLog' = Logged(favLog, book, favorites)
    /\ UNCHANGED <<searchVars, asyncVars, recent, mounted>>

(* star button onClick, on a result card or on a favorites entry *)
ToggleFavorite(book) ==
    /\ Ready
    /\ book \in Range(results) \cup Range(favorites)
    /\ favorites' = ToggleUpdater(favorites, book)
    /\ storage' = [storage EXCEPT !.bf_favs = Some(StringifyEntries(favorites'))]
    /\ favLog' = Logged(favLog, book, favorites)
    /\ UNCHANGED <<searchVars, asyncVars, recent, mounted>>

(* Mutant: clearing the favorites clears the results shown too *)
ClearFavoritesAndResults ==
    /\ Ready
    /\ favorites' = <<>>
    /\ storage' = [storage EXCEPT !.bf_favs = Null]
    /\ favLog' = <<>>
    /\ results' = <<>>
    /\ numFound' = 0
    /\ UNCHANGED <<query, searchTerm, searchTrigger, loading, error, page, sortBy>>
    /\ UNCHANGED <<asyncVars, recent, mounted>>

ClearFavorites ==
    /\ Ready
    /\ favorites' = <<>>
    /\ storage' = [storage EXCEPT !.bf_favs = Null]
    /\ favLog' = <<>>
    /\ UNCHANGED <<searchVars, asyncVars, recent, mounted>>

(* Favorites lists a previous session can have stored: entries of distinct *)
(* books, at most MaxFavs of them.                                         *)
Catalog == {BookA, BookB, BookC}

StoredFavs ==
    {f \in UNION {[1..n -> {FavoriteEntry(b) : b \in Catalog}] : n \in 0..MaxFavs} :
        \A j, k \in 1..Len(f) : j # k => f[j].key # f[k].key}

(* A session in which the search for "a" has delivered a page of results,  *)
(* started with some stored favorites.                                     *)
InitFav ==
    /\ query = <<" ", "a">>
    /\ searchTerm = <<"a">>
    /\ searchTrigger = 1
    /\ results = <<BookB, BookC, BookA>>
    /\ loading = FALSE
    /\ error = Null
    /\ page = 1
    /\ numFound = 45
    /\ sortBy = "relevance"
    /\ \E f \in StoredFavs :
          storage = [bf_favs   |-> IF f = <<>> THEN Null ELSE Some(StringifyEntries(f)),
                     bf_recent |-> Some(JSONstringify(<< <<"a">> >>))]
    /\ favorites = LoadFavorites(storage.bf_favs)
    /\ recent = LoadList(storage.bf_recent)
    /\ timers = {}
    /\ debounceRef = Some(0)
    /\ invs = <<Settled("succeeded")>>
    /\ cleanup = 1
    /\ sinceChange = DEBOUNCE_MS
    /\ favLog = <<>>
    /\ mounted = TRUE

NextFav ==
    \/ \E book \in Range(results) \cup Range(favorites) : ToggleFavorite(book)
    \/ ClearFavorites

SpecFav == InitFav /\ [][NextFav]_vars

-----------------------------------------------------------------------------
(* The persisted lists from startup, with storage writes that can throw *)

(* A render that throws is not caught by any boundary of App.jsx: React    *)
(* takes the component down and runs the cleanups of its effects.  The     *)
(* state updates of the render that threw are never committed.             *)

(* Mutant: the debounce effect has no cleanup *)
CrashKeepingTimer(I) ==
    /\ mounted' = FALSE
    /\ timers' = timers
    /\ invs' = Abort(I, cleanup)
    /\ UNCHANGED <<searchVars, debounceRef, cleanup, sinceChange, listVars>>

(* The component goes down: the cleanups of its two effects run *)
Crash(I) ==
    /\ mounted' = FALSE
    /\ timers' = IF debounceRef # Null THEN ClearTimeout(timers, debounceRef) ELSE timers
    /\ invs' = Abort(I, cleanup)
    /\ UNCHANGED <<searchVars, debounceRef, cleanup, sinceChange, listVars>>

(* star button onClick when localStorage.setItem throws (quota exceeded):  *)
(* the exception leaves the setFavorites updater before it returns, so the *)
(* render that applies the update throws.                                  *)
ToggleFavoriteQuota(book) ==
    /\ Ready
    /\ book \in Range(results) \cup Range(favorites)
    /\ Crash(invs)

(* fetch resolved with a good body and localStorage.setItem throws in the  *)
(* setRecent updater: the render that would show the results throws.       *)
FetchOkQuota(i, data) ==
    /\ Ready
    /\ i \in 1..Len(invs)
    /\ invs[i].status = "pending"
    /\ Crash([invs EXCEPT ![i] = Settled("succeeded")])

(* What can be found under the two keys at startup *)
StoredFavTexts ==
    { Null, Some(CorruptText), Some(NonArrayText),
      Some(StringifyEntries(<<FavoriteEntry(BookB)>>)),
      Some(StringifyEntries(<<FavoriteEntry(BookA), FavoriteEntry(BookB)>>)) }

StoredRecentTexts ==
    { Null, Some(EmptyText), Some(CorruptText), Some(NonArrayText),
      Some(JSONstringify(<< <<"b">> >>)) }

InitLists ==
    /\ query = <<>>
    /\ searchTerm = <<>>
    /\ searchTrigger = 0
    /\ results = <<>>
    /\ loading = FALSE
    /\ error = Null
    /\ page = 1
    /\ numFound = 0
    /\ sortBy = "relevance"
    /\ \E f \in StoredFavTexts : \E r \in StoredRecentTexts :
          storage = [bf_favs |-> f, bf_recent |-> r]
    /\ favorites = LoadFavorites(storage.bf_favs)
    /\ recent = LoadList(storage.bf_recent)
    /\ timers = {}
    /\ debounceRef = Null
    /\ invs = <<>>
    /\ cleanup = 0
    /\ sinceChange = DEBOUNCE_MS
    /\ favLog = <<>>
    /\ mounted = FirstRender(storage)

(* The recent-search chips and the star buttons on the page: none while    *)
(* the component is not rendered.                                          *)
Chips == IF mounted THEN 1..Len(recent) ELSE {}
Stars == IF mounted THEN Range(results) \cup Range(favorites) ELSE {}

NextLists ==
    \/ SetQuery(<<"b">>)
    \/ SearchClick
    \/ \E i \in Chips : UseRecent(i)
    \/ ClearRecent
    \/ \E i \in 1..Len(invs) : \E d \in Payloads : FetchOk(i, d)
    \/ \E i \in 1..Len(invs) : \E d \in Payloads : FetchOkQuota(i, d)
    \/ \E i \in 1..Len(invs) : \E f \in Failures : FetchFail(i, f)
    \/ \E i \in 1..Len(invs) : AbortSettle(i)
    \/ \E book \in Stars : ToggleFavorite(book)
    \/ \E book \in Stars : ToggleFavoriteQuota(book)
    \/ ClearFavorites

SpecLists == InitLists /\ [][NextLists]_vars

-----------------------------------------------------------------------------
(* The search session with its scheduling: a timer that is due fires, a    *)
(* fetch that is outstanding settles, the continuation of an aborted fetch *)
(* runs, time goes by.  Nothing obliges the user to act.                   *)
UserStep ==
    \/ \E v \in QueryTexts : SetQuery(v)
    \/ SearchClick
    \/ ClearClick
    \/ \E i \in 1..Len(recent) : UseRecent(i)
    \/ NextPage
    \/ PrevPage
    \/ \E v \in SortModes : SetSortBy(v)
    \/ ClearRecent

SystemStep ==
    \/ \E t \in timers : DebounceFire(t)
    \/ \E i \in 1..Len(invs) : \E d \in Payloads : FetchOk(i, d)
    \/ \E i \in 1..Len(invs) : \E f \in Failures : FetchFail(i, f)
    \/ \E i \in 1..Len(invs) : AbortSettle(i)
    \/ Tick

SpecLive == Init /\ [][Next]_vars /\ WF_vars(SystemStep)

-----------------------------------------------------------------------------
(* Disposal *)

(* The component is unmounted (the page is left, the root is removed) *)
Unmount ==
    /\ Ready
    /\ Crash(invs)

NextUnmount ==
    \/ Next
    \/ Unmount

SpecUnmount == Init /\ [][NextUnmount]_vars

-----------------------------------------------------------------------------
(* A session on the second page of its results: the search for "a" found   *)
(* 45 books and the invocation for page 2 has delivered.  The invocations  *)
(* that settled before it are left out of the history.                     *)
InitPaged ==
    /\ query = <<"a">>
    /\ searchTerm = <<"a">>
    /\ searchTrigger = 1
    /\ results = <<BookB, BookC, BookA>>
    /\ loading = FALSE
    /\ error = Null
    /\ page = 2
    /\ numFound = 45
    /\ sortBy = "relevance"
    /\ \E r \in {<< <<"a">> >>, << <<"a">>, <<"b">> >>} :
          storage = [bf_favs |-> Null, bf_recent |-> Some(JSONstringify(r))]
    /\ favorites = LoadFavorites(storage.bf_favs)
    /\ recent = LoadList(storage.bf_recent)
    /\ timers = {}
    /\ debounceRef = Some(0)
    /\ invs = <<Settled("succeeded")>>
    /\ cleanup = 1
    /\ sinceChange = DEBOUNCE_MS
    /\ favLog = <<>>
    /\ mounted = TRUE

SpecPaged == InitPaged /\ [][Next]_vars

-----------------------------------------------------------------------------
(* The recent-search list at its capacity *)

(* Eight terms a previous session recorded, and the texts typed now: a     *)
(* ninth term and one of the eight.                                        *)
EightTerms ==
    << <<"a">>, <<"b">>, <<"c">>, <<"d">>, <<"e">>, <<"f">>, <<"g">>, <<"h">> >>
RecentTexts == {<<"i">>, <<"d">>}

StoredRecentLists == {Take(EightTerms, n) : n \in {0, 1, RECENT_CAP - 1, RECENT_CAP}}

InitRecent ==
    /\ query = <<>>
    /\ searchTerm = <<>>
    /\ searchTrigger = 0
    /\ results = <<>>
    /\ loading = FALSE
    /\ error = Null
    /\ page = 1
    /\ numFound = 0
    /\ sortBy = "relevance"
    /\ \E r \in StoredRecentLists :
          storage = [bf_favs |-> Null,
                     bf_recent |-> IF r = <<>> THEN Null ELSE Some(JSONstringify(r))]
    /\ favorites = LoadFavorites(storage.bf_favs)
    /\ recent = LoadList(storage.bf_recent)
    /\ timers = {}
    /\ debounceRef = Null
    /\ invs = <<>>
    /\ cleanup = 0
    /\ sinceChange = DEBOUNCE_MS
    /\ favLog = <<>>
    /\ mounted = TRUE

NextRecent ==
    \/ \E v \in RecentTexts : SetQuery(v)
    \/ SearchClick
    \/ \E i \in 1..Len(recent) : UseRecent(i)
    \/ ClearRecent
    \/ \E i \in 1..Len(invs) : \E d \in Payloads : FetchOk(i, d)
    \/ \E i \in 1..Len(invs) : \E f \in Failures : FetchFail(i, f)
    \/ \E i \in 1..Len(invs) : AbortSettle(i)

SpecRecent == InitRecent /\ [][NextRecent]_vars

-----------------------------------------------------------------------------
(* Sorting: responses whose items share a year *)

MaxDocs == 3      \* items in a response

BookE == [key |-> "E", title |-> "Dune V", author_name |-> Null,
          cover_i |-> Null, first_publish_year |-> Some(0),
          edition_count |-> Null]

(* BookC has no year and BookE the year 0: the comparator finds them equal *)
SortBooks == {BookA, BookC, BookE}

(* The total a response reports: a different one for every response *)
RECURSIVE TotalOf(_)
TotalOf(docs) ==
    IF docs = <<>> THEN 0
    ELSE 4 * TotalOf(Tail(docs))
         + (IF Head(docs) = BookA THEN 1 ELSE IF Head(docs) = BookC THEN 2 ELSE 3)

SortPayloads ==
    { [numFound |-> Some(TotalOf(docs)), docs |-> Some(docs)] :
        docs \in UNION {[1..n -> SortBooks] : n \in 0..MaxDocs} }

(* The session after "b" was typed and committed by the timer under one of *)
(* the sort modes: its lookup is pending.                                  *)
InitSort ==
    /\ query = <<"b">>
    /\ searchTerm = <<"b">>
    /\ searchTrigger = 1
    /\ results = <<>>
    /\ loading = TRUE
    /\ error = Null
    /\ page = 1
    /\ numFound = 0
    /\ sortBy \in SortModes
    /\ storage = [bf_favs |-> Null, bf_recent |-> Null]
    /\ favorites = LoadFavorites(storage.bf_favs)
    /\ recent = LoadList(storage.bf_recent)
    /\ timers = {}
    /\ debounceRef = Some(0)
    /\ invs = <<[term |-> <<"b">>, page |-> 1, sort |-> sortBy, status |-> "pending"]>>
    /\ cleanup = 1
    /\ sinceChange = DEBOUNCE_MS
    /\ favLog = <<>>
    /\ mounted = TRUE

NextSort ==
    \/ \E i \in 1..Len(invs) : \E d \in SortPayloads : FetchOk(i, d)
    \/ \E v \in SortModes : SetSortBy(v)
    \/ \E i \in 1..Len(invs) : AbortSettle(i)

SpecSort == InitSort /\ [][NextSort]_vars

-----------------------------------------------------------------------------
(* Cover images *)

(* doc.f: undefined when the document has no such property *)
Prop(doc, f) == IF f \in DOMAIN doc THEN doc[f] ELSE Null

(* if (x): undefined is falsy, and so are the number 0 and the string "" *)
TruthyNumber(o) == o # Null /\ Get(o) # 0
TruthyString(o) == o # Null /\ Get(o) # ""

(* `https://covers.openlibrary.org/b/${by}/${id}-${size}.jpg` *)
CoverUrl(by, id, size) ==
    "https://covers.openlibrary.org/b/" \o by \o "/" \o id \o "-" \o size \o ".jpg"

(* Mutant: the ISBN is looked at before the cover id *)
CoverForIsbnFirst(doc, size) ==
    IF Prop(doc, "isbn") # Null /\ Len(Get(Prop(doc, "isbn"))) # 0
    THEN Some(CoverUrl("isbn", Get(Prop(doc, "isbn"))[1], size))
    ELSE IF TruthyNumber(Prop(doc, "cover_i"))
    THEN Some(CoverUrl("id", ToString(Get(Prop(doc, "cover_i"))), size))
    ELSE IF TruthyString(Prop(doc, "cover_edition_key"))
    THEN Some(CoverUrl("olid", Get(Prop(doc, "cover_edition_key")), size))
    ELSE Null

(* coverFor(doc, size) *)
CoverFor(doc, size) ==
    IF TruthyNumber(Prop(doc, "cover_i"))
    THEN Some(CoverUrl("id", ToString(Get(Prop(doc, "cover_i"))), size))
    ELSE IF Prop(doc, "isbn") # Null /\ Len(Get(Prop(doc, "isbn"))) # 0
    THEN Some(CoverUrl("isbn", Get(Prop(doc, "isbn"))[1], size))
    ELSE IF TruthyString(Prop(doc, "cover_edition_key"))
    THEN Some(CoverUrl("olid", Get(Prop(doc, "cover_edition_key")), size))
    ELSE Null

(* The cover each result card shows *)
Covers == [j \in 1..Len(results) |-> CoverFor(results[j], "M")]

(* Documents with every combination of the three sources of a cover: the  *)
(* cover id and the edition key there or not, the ISBN list missing,       *)
(* empty or with two entries.                                              *)
CoverBooks ==
    { [key |-> "K" \o (IF c = Null THEN "0" ELSE "1")
                  \o (IF i = Null THEN "0" ELSE IF Get(i) = <<>> THEN "1" ELSE "2")
                  \o (IF e = Null THEN "0" ELSE "1"),
       title |-> "Emma", author_name |-> Null,
       cover_i |-> c, first_publish_year |-> Null, edition_count |-> Null,
       isbn |-> i, cover_edition_key |-> e] :
        c \in {Null, Some(11)},
        i \in {Null, Some(<<>>), Some(<<"9780141439587", "0141439580">>)},
        e \in {Null, Some("OL1M")} }

CoverPayloads ==
    { [numFound |-> Some(Len(docs)), docs |-> Some(docs)] :
        docs \in UNION {[1..n -> CoverBooks] : n \in 1..(MaxDocs - 1)} }

(* The session after "b" was committed: its lookup is pending *)
InitCover ==
    /\ InitSort
    /\ sortBy = "relevance"

NextCover ==
    \/ \E i \in 1..Len(invs) : \E d \in CoverPayloads : FetchOk(i, d)
    \/ \E i \in 1..Len(invs) : \E f \in Failures : FetchFail(i, f)

SpecCover == InitCover /\ [][NextCover]_vars

-----------------------------------------------------------------------------
(* What the properties below observe of a step *)

Unsettled == {"pending", "aborted"}
Outcomes  == {"succeeded", "failed", "cancelled"}

(* invocation i settles in this step with the given outcome *)
SettlesAs(i, outcome) ==
    /\ invs[i].status \in Unsettled
    /\ invs'[i].status = outcome

(* this step issues a new invocation *)
Issues == Len(invs') > Len(invs)

(* this step re-evaluates the fetch effect *)
Reevaluates ==
    <<searchTerm', page', sortBy', searchTrigger'>>
        # <<searchTerm, page, sortBy, searchTrigger>>

YearOf(doc) ==
    IF doc.first_publish_year = Null THEN 0 ELSE doc.first_publish_year[1]

Count(s, x) == Cardinality({j \in 1..Len(s) : s[j] = x})

SameItems(s, t) ==
    /\ Len(s) = Len(t)
    /\ \A j \in 1..Len(s) : Count(s, s[j]) = Count(t, s[j])

Ascending(s)  == \A j, k \in 1..Len(s) : j < k => YearOf(s[j]) <= YearOf(s[k])
Descending(s) == \A j, k \in 1..Len(s) : j < k => YearOf(s[j]) >= YearOf(s[k])

-----------------------------------------------------------------------------
(* C1: latest-wins.  In every step in which an invocation that is not the  *)
(* most recently issued one settles (its response or its abort arrives     *)
(* after a later invocation was issued), results, numFound and error are   *)
(* left as they were.                                                      *)
C1_LatestWins ==
    [][\A i \in 1..Len(invs) :
          (i < Len(invs) /\ \E o \in Outcomes : SettlesAs(i, o))
              => UNCHANGED <<results, numFound, error>>]_vars

(* An earlier invocation was cancelled and the later one delivered results *)
C1_Witness ==
    /\ Len(invs) = 2
    /\ invs[1].status = "cancelled"
    /\ invs[2].status = "succeeded"
    /\ results # <<>>

(* C2: in every reachable state, while the most recently issued invocation *)
(* has not settled, loading is true.                                       *)
C2_LoadingWhileLatestPending ==
    (Len(invs) > 0 /\ invs[Len(invs)].status = "pending") => loading = TRUE

(* C3: the settlement of an invocation that was cancelled because a newer  *)
(* one superseded it leaves loading, results, numFound, error and the      *)
(* recent-search list unchanged.                                           *)
C3_CancelledSettlesSilently ==
    [][\A i \in 1..Len(invs) :
          (i < Len(invs) /\ invs[i].status = "aborted" /\ SettlesAs(i, "cancelled"))
              => UNCHANGED <<loading, results, numFound, error, recent>>]_vars

(* C4: debounce.  Whenever the debounce timer commits, at least 450 time   *)
(* units have passed since the last change of query, the timer is the one  *)
(* scheduled for the current (final) text, and exactly its trimmed value   *)
(* becomes searchTerm and the term of the invocation issued; a text typed  *)
(* before the final one is never committed by the timer.                   *)
C4_Debounce ==
    [][\A t \in timers :
          DebounceFire(t)
              => /\ sinceChange >= DEBOUNCE_MS
                 /\ t.value = query
                 /\ searchTerm' = Trim(query)
                 /\ Issues
                 /\ invs'[Len(invs')].term = Trim(query)
                 /\ timers' = {}]_vars

(* The text " a" was typed, the window elapsed and the timer committed "a" *)
C4_Witness ==
    /\ query = <<" ", "a">>
    /\ searchTerm = <<"a">>
    /\ searchTrigger = 1
    /\ timers = {}
    /\ Len(invs) = 1

(* C5: when the most recent invocation fails for a reason other than       *)
(* cancellation, error becomes a non-empty message, loading becomes false, *)
(* and results and numFound keep their values.                             *)
C5_FailureBecomesState ==
    [][\A i \in 1..Len(invs) :
          (i = Len(invs) /\ SettlesAs(i, "failed"))
              => /\ error' # Null
                 /\ error'[1] # ""
                 /\ loading' = FALSE
                 /\ results' = results
                 /\ numFound' = numFound]_vars

(* The latest invocation failed; the results of the one before it stay *)
C5_Witness ==
    /\ Len(invs) = 2
    /\ invs[1].status = "succeeded"
    /\ invs[2].status = "failed"
    /\ results # <<>>
    /\ numFound > 0
    /\ error # Null
    /\ loading = FALSE

(* C6: when the most recent invocation succeeds with body data, numFound   *)
(* becomes data.numFound (0 if absent) and results the items of data.docs  *)
(* (none if absent): in the order given for relevance, by year ascending   *)
(* for year-asc and descending for year-desc, a missing year counting as   *)
(* 0.  [A(1965), B(2000)] with numFound 2 under year-desc gives [B, A], 2. *)
C6_SuccessSetsResults ==
    [][\A i \in 1..Len(invs) : \A data \in Payloads :
          (i = Len(invs) /\ FetchOk(i, data))
              => LET docs == IF data.docs = Null THEN <<>> ELSE data.docs[1]
                     mode == invs[i].sort
                 IN  /\ numFound' = IF data.numFound = Null THEN 0 ELSE data.numFound[1]
                     /\ SameItems(results', docs)
                     /\ mode = "relevance" => results' = docs
                     /\ mode = "year-asc" => Ascending(results')
                     /\ mode = "year-desc" => Descending(results')
                     /\ (mode = "year-desc" /\ docs = <<BookA, BookB>>
                         /\ data.numFound = <<2>>)
                            => results' = <<BookB, BookA>> /\ numFound' = 2]_vars

(* The scenario of the specification: [A, B] came back under year-desc *)
C6_Witness ==
    /\ Len(invs) > 0
    /\ invs[Len(invs)].status = "succeeded"
    /\ sortBy = "year-desc"
    /\ results = <<BookB, BookA>>
    /\ numFound = 2

(* C7: the recent-search list, in memory and persisted, gains or reorders  *)
(* a term only in a step in which an invocation for that term resolves     *)
(* successfully; a failing or cancelled invocation, or a commit alone,     *)
(* leaves both unchanged.                                                  *)
C7_RecentOnlyOnSuccess ==
    [][/\ (recent' # recent /\ recent' # <<>>)
            => \E i \in 1..Len(invs) :
                  SettlesAs(i, "succeeded") /\ recent'[1] = invs[i].term
       /\ (storage'.bf_recent # storage.bf_recent /\ storage'.bf_recent # Null)
            => \E i \in 1..Len(invs) :
                  /\ SettlesAs(i, "succeeded")
                  /\ LoadList(storage'.bf_recent)[1] = invs[i].term
       /\ \A i \in 1..Len(invs) :
            (SettlesAs(i, "failed") \/ SettlesAs(i, "cancelled"))
                => UNCHANGED <<recent, storage>>]_vars

(* "a" was committed and its invocation failed: "a" is not recorded *)
C7_Witness ==
    /\ searchTerm = <<"a">>
    /\ Len(invs) = 1
    /\ invs[1].status = "failed"
    /\ \A j \in 1..Len(recent) : recent[j] # <<"a">>
    /\ storage.bf_recent = Null

(* C8: when query changes from a text with a non-empty trimmed form to one *)
(* whose trimmed form is empty, the pending debounce commit is cancelled,  *)
(* results = [], numFound = 0 and error = null, and no invocation is       *)
(* issued.                                                                 *)
C8_EmptyQueryClears ==
    [][(query' # query /\ Trim(query) # <<>> /\ Trim(query') = <<>>)
          => /\ timers' = {}
             /\ results' = <<>>
             /\ numFound' = 0
             /\ error' = Null
             /\ ~Issues]_vars

(* The text was blanked after a search had delivered *)
C8_Witness ==
    /\ query = <<" ">>
    /\ searchTerm # <<>>
    /\ Len(invs) = 1
    /\ invs[1].status = "succeeded"
    /\ recent # <<>>
    /\ results = <<>>
    /\ numFound = 0
    /\ timers = {}

(* C9: every invocation issued carries a non-empty term, the committed     *)
(* one; every re-evaluation of the fetch effect with an empty searchTerm   *)
(* sets results = [], numFound = 0 and error = null and issues nothing.    *)
C9_NoLookupForEmptyTerm ==
    [][/\ Issues
            => /\ searchTerm' # <<>>
               /\ invs'[Len(invs')].term = searchTerm'
       /\ (Reevaluates /\ searchTerm' = <<>>)
            => /\ ~Issues
               /\ results' = <<>>
               /\ numFound' = 0
               /\ error' = Null]_vars

(* The sort mode was changed after Clear cancelled the only invocation *)
C9_Witness ==
    /\ searchTerm = <<>>
    /\ sortBy = "year-asc"
    /\ Len(invs) = 1
    /\ invs[1].status = "cancelled"

(* The search state the favorites session starts from is one the search    *)
(* session reaches.                                                        *)
FavSessionState ==
    /\ query = <<" ", "a">> /\ searchTerm = <<"a">> /\ searchTrigger = 1
    /\ results = <<BookB, BookC, BookA>> /\ numFound = 45
    /\ loading = FALSE /\ error = Null /\ page = 1 /\ sortBy = "relevance"
    /\ recent = << <<"a">> >>
    /\ storage.bf_recent = Some(JSONstringify(<< <<"a">> >>))
    /\ timers = {} /\ debounceRef = Some(0) /\ cleanup = 1
    /\ invs = <<Settled("succeeded")>> /\ sinceChange = DEBOUNCE_MS

HasKey(list, key) == \E j \in 1..Len(list) : list[j].key = key
Without(list, key) == SelectSeq(list, LAMBDA e : e.key # key)

(* the last two steps toggled the same book id *)
ToggledTwice ==
    /\ Len(favLog) = 2
    /\ favLog[1].key = favLog[2].key

(* C10 as stated: toggling the same book id twice in a row returns the     *)
(* favorites list to exactly its original content and order, whether or    *)
(* not the book was in the list beforehand.                                *)
C10_ToggleTwiceRestores ==
    ToggledTwice => favorites = favLog[1].before

(* C10 as amended: toggling the same book id twice in a row restores the   *)
(* list exactly when the book was not in it beforehand; when it was, the   *)
(* other entries keep their order and the book's entry ends up first, so   *)
(* the original order comes back only if that entry was already first.     *)
C10_ToggleTwice ==
    ToggledTwice =>
        LET before == favLog[1].before
            key    == favLog[1].key
        IN  IF HasKey(before, key)
            THEN /\ favorites = <<favLog[2].entry>> \o Without(before, key)
                 /\ (favorites = before) <=> (before[1].key = key)
            ELSE favorites = before

(* A book that was second in the list was toggled twice *)
C10_Witness ==
    /\ ToggledTwice
    /\ Len(favLog[1].before) >= 2
    /\ favLog[1].before[2].key = favLog[1].key
    /\ favorites # favLog[1].before

(* A book that was not in the list was toggled twice *)
C10_WitnessAbsent ==
    /\ ToggledTwice
    /\ ~HasKey(favLog[1].before, favLog[1].key)
    /\ favLog[1].before # <<>>

-----------------------------------------------------------------------------
NoDuplicateKeys(list) ==
    \A j, k \in 1..Len(list) : j # k => list[j].key # list[k].key

(* what toggling the book must make of the list *)
Toggled(list, book, after) ==
    IF HasKey(list, book.key)
    THEN after = Without(list, book.key)
    ELSE /\ after # <<>>
         /\ after[1].key = book.key
         /\ after[1].title = book.title
         /\ Tail(after) = list

(* C11: favorites keep set semantics keyed by id.  From a duplicate-free   *)
(* loaded list, after any toggles and clears the list holds at most one    *)
(* entry per key; every toggle of a book removes the entry with its key if *)
(* there is one and otherwise puts the book's entry first, the others      *)
(* keeping their order; and no toggle ends in an error.                    *)
C11_FavoritesSetSemantics ==
    /\ [](mounted => NoDuplicateKeys(favorites))
    /\ [][\A book \in Stars :
            (ToggleFavorite(book) \/ ToggleFavoriteQuota(book))
                => /\ mounted'
                   /\ Toggled(favorites, book, favorites')]_vars

(* C11 without its last clause: what holds of every toggle whose storage   *)
(* write returns.                                                          *)
C11_SetSemanticsWhenWritten ==
    /\ [](mounted => NoDuplicateKeys(favorites))
    /\ [][\A book \in Stars :
            ToggleFavorite(book) => Toggled(favorites, book, favorites')]_vars

(* A third book was put in front of two favorites *)
C11_Witness ==
    /\ mounted
    /\ Len(favorites) = 3
    /\ favLog # <<>>
    /\ favLog[Len(favLog)].before = Tail(favorites)

-----------------------------------------------------------------------------
NoDuplicates(list) == \A j, k \in 1..Len(list) : j # k => list[j] # list[k]

IsPrefix(a, b) == Len(a) <= Len(b) /\ a = SubSeq(b, 1, Len(a))

Others(list, term) == SelectSeq(list, LAMBDA x : x # term)

(* C12: from a loaded list that is duplicate-free and has at most 8 terms, *)
(* after any successful resolutions, reuses of recent terms and clears the *)
(* recent list has at most 8 terms and no duplicate; every successful      *)
(* resolution puts its term first and keeps the other terms in their       *)
(* order, and a ninth distinct term drops the last (oldest) one.           *)
C12_RecentBounded ==
    /\ [](Len(recent) <= RECENT_CAP /\ NoDuplicates(recent))
    /\ [][\A i \in 1..Len(invs) :
            SettlesAs(i, "succeeded")
                => LET t == invs[i].term
                   IN  /\ recent' # <<>> /\ recent'[1] = t
                       /\ IsPrefix(Tail(recent'), Others(recent, t))
                       /\ (Len(recent) = RECENT_CAP /\ Count(recent, t) = 0)
                            => recent' = <<t>> \o SubSeq(recent, 1, RECENT_CAP - 1)
                       /\ (Len(recent) < RECENT_CAP \/ Count(recent, t) > 0)
                            => Tail(recent') = Others(recent, t)]_vars

(* "i" was recorded on top of eight stored terms: "h", the oldest, is gone *)
C12_Witness ==
    /\ recent = <<(<<"i">>)>> \o SubSeq(EightTerms, 1, RECENT_CAP - 1)
    /\ Len(invs) >= 1
    /\ invs[Len(invs)].status = "succeeded"

(* C13: record is idempotent.  A list whose first term is t and holds t    *)
(* once is what recording t leaves; recording t on it again leaves it as   *)
(* it is, and after every record of t the list holds t once, in front.     *)
C13_RecordIdempotent ==
    [][\A i \in 1..Len(invs) :
          SettlesAs(i, "succeeded")
              => LET t == invs[i].term
                 IN  /\ Count(recent', t) = 1
                     /\ recent'[1] = t
                     /\ (recent # <<>> /\ recent[1] = t /\ Count(recent, t) = 1)
                            => recent' = recent]_vars

(* Two invocations succeeded, the second for the term already in front *)
C13_Witness ==
    /\ Len(invs) = 2
    /\ invs[1].status = "succeeded"
    /\ invs[2].status = "succeeded"
    /\ searchTrigger = 2
    /\ query = <<"i">>
    /\ recent = << <<"i">> >>
    /\ storage.bf_recent = Some(JSONstringify(recent))

-----------------------------------------------------------------------------
(* C14: write-through persistence.  After every toggle or clear of the     *)
(* favorites and every record or clear of the recent list whose storage    *)
(* write returns, what a load would read from the persisted entry equals   *)
(* the list in memory; so it does in every state of a running session.     *)
C14_WriteThrough ==
    /\ [](mounted => (/\ LoadFavorites(storage.bf_favs) = favorites
                      /\ LoadList(storage.bf_recent) = recent))
    /\ [][/\ ((\E book \in Stars : ToggleFavorite(book)) \/ ClearFavorites)
               => (LoadFavorites(storage'.bf_favs) = favorites')
          /\ ((\E j \in 1..Len(invs) : SettlesAs(j, "succeeded") /\ mounted')
                \/ ClearRecent)
               => (LoadList(storage'.bf_recent) = recent')]_vars

(* Book B, which has no authors and no cover, was made a favorite after a  *)
(* search was recorded: both entries were rewritten.                       *)
C14_Witness ==
    /\ mounted
    /\ favLog # <<>>
    /\ favLog[Len(favLog)].key = "B"
    /\ favorites # <<>>
    /\ favorites[1].key = "B"
    /\ storage.bf_favs = Some(StringifyEntries(favorites))
    /\ DOMAIN storage.bf_favs[1].value[1] # EntryFields
    /\ recent # <<>>
    /\ \E j \in 1..Len(invs) : invs[j].status = "succeeded"

-----------------------------------------------------------------------------
(* the component has just started: nothing was typed, searched or toggled *)
AtStartup == invs = <<>> /\ favLog = <<>> /\ query = <<>> /\ searchTrigger = 0

HoldsList(item) == item # Null /\ item[1].text = "json"

(* C15: the load at startup never raises and always yields a list: for     *)
(* each of the two entries the value loaded is the stored list when the    *)
(* entry holds one, and the empty list when the key is missing or its      *)
(* content is anything else; the component is rendered whatever is stored. *)
C15_LoadYieldsList ==
    AtStartup =>
        /\ mounted
        /\ recent = IF HoldsList(storage.bf_recent)
                    THEN storage.bf_recent[1].value ELSE <<>>
        /\ Len(favorites) = IF HoldsList(storage.bf_favs)
                            THEN Len(storage.bf_favs[1].value) ELSE 0
        /\ \A j \in 1..Len(favorites) :
              favorites[j].key = storage.bf_favs[1].value[j].key

(* C15 for the contents the code does recover from: a missing key, the     *)
(* empty string and text that does not parse load as the empty list, a     *)
(* stored array loads as itself.                                           *)
C15_LoadOfArrayOrUnparsable ==
    (AtStartup /\ FirstRender(storage)) =>
        /\ recent = IF HoldsList(storage.bf_recent)
                    THEN storage.bf_recent[1].value ELSE <<>>
        /\ Len(favorites) = IF HoldsList(storage.bf_favs)
                            THEN Len(storage.bf_favs[1].value) ELSE 0

(* C16: storage is best-effort.  When localStorage.setItem throws inside   *)
(* toggle or record, no error reaches the caller, the list in memory takes *)
(* the newly computed value and the session goes on.                       *)
C16_StorageBestEffort ==
    [][/\ \A book \in Stars :
            ToggleFavoriteQuota(book)
                => (mounted' /\ Toggled(favorites, book, favorites'))
       /\ \A i \in 1..Len(invs) : \A d \in Payloads :
            FetchOkQuota(i, d)
                => (mounted' /\ recent' # <<>> /\ recent'[1] = invs[i].term)]_vars

(* C17: clear, on favorites and on the recent list, removes the persisted  *)
(* key and empties the list in memory; a load that follows yields the      *)
(* empty list.                                                             *)
C17_ClearRemoves ==
    [][/\ ClearFavorites
            => /\ favorites' = <<>>
               /\ storage'.bf_favs = Null
               /\ LoadFavorites(storage'.bf_favs) = <<>>
       /\ ClearRecent
            => /\ recent' = <<>>
               /\ storage'.bf_recent = Null
               /\ LoadList(storage'.bf_recent) = <<>>]_vars

(* The recent list was cleared after a search had been recorded, and the   *)
(* favorites are cleared too.                                              *)
C17_Witness ==
    /\ mounted
    /\ \E j \in 1..Len(invs) : invs[j].status = "succeeded"
    /\ recent = <<>>
    /\ storage.bf_recent = Null
    /\ results # <<>>
    /\ favorites = <<>>
    /\ storage.bf_favs = Null

-----------------------------------------------------------------------------
(* C18: pagination bounds.  next leaves page unchanged whenever page is at *)
(* least ceil(numFound / 20), that is 20 * page >= numFound, and otherwise *)
(* adds 1; prev leaves page unchanged at page 1 and otherwise subtracts 1; *)
(* page >= 1 in every reachable state.                                     *)
C18_PaginationBounds ==
    /\ [](page >= 1)
    /\ [][/\ NextPage
               => (page' = IF RESULTS_PER_PAGE * page >= numFound
                           THEN page ELSE page + 1)
          /\ PrevPage
               => (page' = IF page = 1 THEN 1 ELSE page - 1)]_vars

(* next moved to page 2 of 3 and the lookup for that page is pending *)
C18_Witness ==
    /\ page = 2
    /\ numFound = 45
    /\ Len(invs) = 2
    /\ invs[1].status = "succeeded"
    /\ invs[2].status = "pending"
    /\ invs[2].page = 2

-----------------------------------------------------------------------------
Pending == {j \in 1..Len(invs) : invs[j].status = "pending"}

(* C20: every re-trigger of the fetch effect cancels the still pending     *)
(* prior invocation before it issues the new one: in the state a step that *)
(* issues an invocation leaves, no earlier invocation is pending, and in   *)
(* every reachable state at most one invocation is pending and not         *)
(* cancelled.                                                              *)
C20_OnePending ==
    /\ [](Cardinality(Pending) <= 1)
    /\ [][Issues => \A j \in 1..Len(invs) : invs'[j].status # "pending"]_vars

(* A commit during a pending lookup: the prior one is aborted, the new one *)
(* is pending.                                                             *)
C20_Witness ==
    /\ Len(invs) = 2
    /\ invs[1].status = "aborted"
    /\ invs[2].status = "pending"

-----------------------------------------------------------------------------
(* The search state the sorting session starts from (under relevance) is   *)
(* one the search session reaches.                                         *)
SortSessionState ==
    /\ query = <<"b">> /\ searchTerm = <<"b">> /\ searchTrigger = 1
    /\ results = <<>> /\ loading = TRUE /\ error = Null /\ page = 1
    /\ numFound = 0 /\ sortBy = "year-asc"
    /\ storage = [bf_favs |-> Null, bf_recent |-> Null]
    /\ favorites = <<>> /\ recent = <<>> /\ timers = {}
    /\ debounceRef = Some(0) /\ cleanup = 1 /\ sinceChange = DEBOUNCE_MS
    /\ invs = <<[term |-> <<"b">>, page |-> 1, sort |-> "year-asc", status |-> "pending"]>>

(* the ways to place n items *)
Placings(n) == {p \in [1..n -> 1..n] : \A j, k \in 1..n : j # k => p[j] # p[k]}

(* out holds the items of in, each once, items of equal year in the order  *)
(* they have in in                                                         *)
StablePermutation(in, out) ==
    /\ Len(out) = Len(in)
    /\ \E p \in Placings(Len(in)) :
          /\ \A j \in 1..Len(in) : out[p[j]] = in[j]
          /\ \A j, k \in 1..Len(in) :
                (j < k /\ YearOf(in[j]) = YearOf(in[k])) => p[j] < p[k]

-----------------------------------------------------------------------------
(* C21: every commit of a search term (the debounce timer firing, the      *)
(* Search button, a recent-search chip: the steps that advance the         *)
(* trigger) leaves the page at 1 together with the term, and the           *)
(* invocation it issues asks for page 1 of that term.                      *)
Commits == mounted /\ searchTrigger' # searchTrigger

C21_CommitResetsPage ==
    [][Commits =>
          /\ page' = 1
          /\ Issues => (/\ invs'[Len(invs')].page = 1
                        /\ invs'[Len(invs')].term = searchTerm')]_vars

(* a commit made on page 2 has issued its invocation for page 1 *)
C21_Witness ==
    /\ searchTrigger = 2
    /\ page = 1
    /\ Len(invs) = 2
    /\ invs[2].status = "pending"
    /\ invs[2].page = 1
    /\ invs[2].term = searchTerm

-----------------------------------------------------------------------------
(* C22: the Search button issues a new invocation even when the term, the  *)
(* page and the sort mode are what they were, because every commit adds    *)
(* one to the trigger, which the fetch effect depends on.                  *)
C22_SearchAlwaysIssues ==
    [][/\ Commits => searchTrigger' = searchTrigger + 1
       /\ SearchClick =>
            (/\ searchTrigger' > searchTrigger
             /\ Issues
             /\ invs'[Len(invs')] = [term |-> Trim(query), page |-> 1,
                                     sort |-> sortBy, status |-> "pending"])]_vars

(* the term whose results were delivered has been searched again on the    *)
(* same page, and a second invocation for it is pending                    *)
C22_Witness ==
    /\ Len(invs) = 2
    /\ invs[1].status = "succeeded"
    /\ recent # <<>>
    /\ recent[1] = searchTerm
    /\ query = searchTerm
    /\ timers = {}
    /\ invs[2] = [term |-> searchTerm, page |-> 1, sort |-> sortBy, status |-> "pending"]
    /\ searchTrigger = 2

-----------------------------------------------------------------------------
(* C23: once the component is disposed of, no debounce timer is left       *)
(* pending (the cleanup of the debounce effect cancelled it), and from     *)
(* then on the committed term, the page and the trigger never change and   *)
(* no invocation is issued.                                                *)
C23_NothingAfterDisposal ==
    /\ [](~mounted => timers = {})
    /\ [][~mounted =>
            (/\ UNCHANGED <<searchTerm, page, searchTrigger>>
             /\ ~Issues
             /\ ~mounted')]_vars

(* the component was disposed of while a commit was pending; the delay     *)
(* has gone by and nothing was committed                                   *)
C23_Witness ==
    /\ ~mounted
    /\ debounceRef \notin {Null, Some(0)}
    /\ timers = {}
    /\ Trim(query) # <<>>
    /\ sinceChange = DEBOUNCE_MS
    /\ searchTerm = <<>>
    /\ searchTrigger = 0
    /\ invs = <<>>

-----------------------------------------------------------------------------
(* C24: a failed invocation is never issued again by the program itself:   *)
(* a step that settles an invocation as failed issues none, an invocation  *)
(* is issued only by a debounce commit, the Search button, a recent-search *)
(* chip, a page change or a sort change, and an error that is shown stays  *)
(* as it is until such a step issues an invocation or the query is made    *)
(* blank.                                                                  *)
C24_NoRetry ==
    [][/\ (\E i \in 1..Len(invs) : SettlesAs(i, "failed")) =>
            (/\ ~Issues
             /\ Len(invs') = Len(invs)
             /\ \A j \in 1..Len(invs) : invs'[j].status = "pending" => invs[j].status = "pending")
       /\ Issues =>
            (\/ \E t \in timers : DebounceFire(t)
             \/ SearchClick
             \/ \E i \in 1..Len(recent) : UseRecent(i)
             \/ NextPage
             \/ PrevPage
             \/ \E v \in SortModes : SetSortBy(v))
       /\ (error # Null /\ error' # error) =>
            (Issues \/ Trim(query') = <<>>)]_vars

(* the only invocation has failed, its error is shown, time has gone by    *)
(* and no other invocation exists                                          *)
C24_Witness ==
    /\ Len(invs) = 1
    /\ invs[1].status = "failed"
    /\ error # Null
    /\ ~loading
    /\ timers = {}
    /\ sinceChange = DEBOUNCE_MS
    /\ searchTerm # <<>>

-----------------------------------------------------------------------------
(* C25: the cover of a book is taken from the first source it has, in the  *)
(* order cover id, first ISBN, edition key, whatever the other sources     *)
(* are (an ISBN list without entries is no source), and a book has no      *)
(* cover exactly when it has none of the three.                            *)
HasCoverId(doc) == doc.cover_i # Null
HasIsbn(doc)    == doc.isbn # Null /\ doc.isbn # Some(<<>>)
HasEdition(doc) == doc.cover_edition_key # Null

C25_CoverPrecedence ==
    \A j \in 1..Len(results) : \A size \in {"S", "M", "L"} :
        LET doc == results[j]
            url == CoverFor(doc, size)
        IN  /\ HasCoverId(doc) =>
                  url = Some(CoverUrl("id", ToString(doc.cover_i[1]), size))
            /\ (~HasCoverId(doc) /\ HasIsbn(doc)) =>
                  url = Some(CoverUrl("isbn", doc.isbn[1][1], size))
            /\ (~HasCoverId(doc) /\ ~HasIsbn(doc) /\ HasEdition(doc)) =>
                  url = Some(CoverUrl("olid", doc.cover_edition_key[1], size))
            /\ url = Null <=> (~HasCoverId(doc) /\ ~HasIsbn(doc) /\ ~HasEdition(doc))
            /\ size = "M" => Covers[j] = url

(* a page with a book that has all three sources and a book whose only     *)
(* source is the edition key, its ISBN list being empty                    *)
C25_Witness ==
    /\ Len(results) = 2
    /\ HasCoverId(results[1]) /\ HasIsbn(results[1]) /\ HasEdition(results[1])
    /\ ~HasCoverId(results[2]) /\ results[2].isbn = Some(<<>>) /\ HasEdition(results[2])
    /\ Covers = << Some("https://covers.openlibrary.org/b/id/11-M.jpg"),
                   Some("https://covers.openlibrary.org/b/olid/OL1M-M.jpg") >>

-----------------------------------------------------------------------------
(* C26: favorites and search do not touch each other.  A toggle or a clear *)
(* of the favorites, and any step that changes the favorites list or its   *)
(* stored entry, leaves the search state and the recent-search list with   *)
(* its stored entry as they are and issues no invocation; any step that    *)
(* changes the search state, the invocations or the recent-search list     *)
(* leaves the favorites list and its stored entry as they are.             *)
FavoritesSide == <<favorites, storage.bf_favs>>
SearchSide == <<query, searchTerm, searchTrigger, page, sortBy, results, numFound,
                loading, error, recent, storage.bf_recent, invs, cleanup>>

-----------------------------------------------------------------------------
(* C27: while the input is empty (no term can be committed then: the timer *)
(* is cleared, the Search button is disabled, and a recent-search chip     *)
(* fills the input), the results are empty and the total is 0, and no step *)
(* that leaves the input empty issues an invocation.                       *)
C27_EmptiedStaysEmpty ==
    /\ [](query = <<>> => (results = <<>> /\ numFound = 0))
    /\ [][(query = <<>> /\ query' = <<>>) => ~Issues]_vars

(* the two halves on their own *)
C27_NoLateResults == query = <<>> => (results = <<>> /\ numFound = 0)

C27_NoLookupWhileEmpty == [][(query = <<>> /\ query' = <<>>) => ~Issues]_vars

-----------------------------------------------------------------------------
(* C28: the Search button and a recent-search chip leave no debounce       *)
(* commit pending: a timer that was pending before them is cancelled and   *)
(* none is started, so that none fires after them to reset the page and    *)
(* issue the lookup of the same term once more.                            *)
C28_CommitCancelsDebounce ==
    [][(SearchClick \/ \E i \in 1..Len(recent) : UseRecent(i)) => timers' = {}]_vars

(* the halves for the Search button and for the chips *)
C28_SearchCancelsDebounce == [][SearchClick => timers' = {}]_vars

C28_ReuseCancelsDebounce == [][(\E i \in 1..Len(recent) : UseRecent(i)) => timers' = {}]_vars

-----------------------------------------------------------------------------
(* C29: the page is never beyond the last page the total implies:          *)
(* page <= max(1, ceil(numFound / 20)) in every state.                     *)
C29_PageWithinTotal == page <= Max(1, CeilDiv(numFound, RESULTS_PER_PAGE))

-----------------------------------------------------------------------------
(* C30: the results and the total belong together: in every state both are *)
(* cleared, or both are those of one response (the results being its       *)
(* items in the order of some sort mode), and a step that changes one of   *)
(* them clears both or takes both from the response it delivers.           *)
FromOneResponse(r, n) ==
    \E d \in Payloads : \E mode \in SortModes :
        /\ r = SortDocs(OrEmpty(d.docs), mode)
        /\ SameItems(r, OrEmpty(d.docs))
        /\ n = OrZero(d.numFound)

C30_ResultsAndTotalCoherent ==
    /\ []((results = <<>> /\ numFound = 0) \/ FromOneResponse(results, numFound))
    /\ [][(results' # results \/ numFound' # numFound) =>
            (\/ results' = <<>> /\ numFound' = 0
             \/ \E i \in 1..Len(invs) :
                   /\ SettlesAs(i, "succeeded")
                   /\ FromOneResponse(results', numFound'))]_vars

(* a second response has replaced the results and the total of the first *)
C30_Witness ==
    /\ Len(invs) = 2
    /\ invs[1].status = "succeeded"
    /\ invs[2].status = "succeeded"
    /\ results = <<BookA, BookB>>
    /\ numFound = 2
    /\ page = 2

-----------------------------------------------------------------------------
(* C31: while the component is on the page and no invocation is            *)
(* outstanding (each one issued has succeeded, failed, or was cancelled    *)
(* and its cancellation has settled), loading is false.  This covers the   *)
(* state at startup and the state after the Clear button cancelled the     *)
(* lookup in flight.                                                       *)
AllSettled == \A i \in 1..Len(invs) : invs[i].status \in Outcomes

C31_IdleNotLoading == (mounted /\ AllSettled) => ~loading

(* the Clear button cancelled the only lookup, the cancellation has        *)
(* settled and loading is false                                            *)
C31_Witness ==
    /\ mounted
    /\ Len(invs) = 1
    /\ invs[1].status = "cancelled"
    /\ query = <<>>
    /\ searchTerm = <<>>
    /\ searchTrigger = 1
    /\ ~loading

-----------------------------------------------------------------------------
(* nothing is left to happen unless the user acts *)
Quiescent == mounted /\ timers = {} /\ AllSettled

(* C32: once the user has stopped acting and every invocation has settled, *)
(* loading is false for good, and results, total and error are what the    *)
(* invocation issued last produced, or are cleared if the committed term   *)
(* ended empty.  In the form of a step: where every invocation has         *)
(* settled and no timer is pending, a step that issues no invocation,      *)
(* starts no timer and leaves the committed term non-empty (after it       *)
(* nothing happens unless the user acts again) leaves results, total and   *)
(* error as the last invocation left them.                                 *)

C32_FinalFromLastInvocation ==
    [][(Quiescent /\ Quiescent' /\ invs' = invs /\ searchTerm' # <<>>) =>
          UNCHANGED <<results, numFound, error>>]_vars

(* The part about loading holds: once the user has stopped, every          *)
(* invocation settles and loading is false from then on.                   *)
C32_LoadingSettles == <>[][~UserStep]_vars => <>[](~loading /\ AllSettled)

=============================================================================
